---- MODULE Spec2Model ----
(***************************************************************************)
(* The streaming conversation page (pages/Conversation.jsx), its input     *)
(* control (components/conversation/ConversationInput.jsx) and the XHR     *)
(* stream transport (api/endpoints.js, createXHRStream).                   *)
(*                                                                         *)
(* React function components: every handler is a closure over the state   *)
(* of the render that created it.  A handler handed to the transport when  *)
(* a stream is opened keeps reading the state values of THAT render for as *)
(* long as the stream lives; refs (useRef) and functional state updates    *)
(* (setX(prev => ...)) read the live value.  The model keeps, with every   *)
(* pending timer and every open XHR, the render values its closure reads.  *)
(***************************************************************************)
EXTENDS Integers, Sequences, FiniteSets, TLC

\* ------------------------------------------------------------------ bounds
MaxOpen == 2         \* XHRs open at the same time
MaxMsgs == 3         \* length of the transcript
MaxText == 2         \* length of an accumulator, in symbols
MaxClock == 2        \* milliseconds the clock advances
MaxWire == 8         \* length of a response text, in symbols

\* ------------------------------------------------------------------- texts
\* A text is a sequence of symbols; a symbol is a word or white space.
Null == "null"
SP == " "
NL == "NL"
Hello == <<"Hello">>
Searching == <<"Searching">>
Empty == <<>>

IsSpace(c) == c \in {SP, NL}

RECURSIVE TrimLeft(_)
TrimLeft(t) == IF t # <<>> /\ IsSpace(Head(t)) THEN TrimLeft(Tail(t)) ELSE t

RECURSIVE TrimRight(_)
TrimRight(t) ==
  IF t # <<>> /\ IsSpace(t[Len(t)]) THEN TrimRight(SubSeq(t, 1, Len(t) - 1)) ELSE t

\* String.prototype.trim
Trim(t) == TrimRight(TrimLeft(t))

\* what the user can type into the input
UserTexts == {Empty, <<SP>>, <<SP, "Hello">>}
ThreadIds == {"t1", "t2"}

\* ------------------------------------------------------------------ frames
\* One decoded `data: {...}` object, with the fields the page reads.  The event
\* onEvent gets is { type: parsedData.type, data: parsedData }: event.type and
\* event.data.type are the same field of the frame.
Frame(ty, tid, content, err, attempt) ==
  [type |-> ty, thread_id |-> tid, content |-> content, error |-> err,
   attempt |-> attempt]

\* --------------------------------------------------------------- variables
VARIABLES
  page,              \* the useState cells of the Conversation page (a record)
  cleanupRef,        \* useRef(null): 0, or the index of the XHR its function aborts
  lastUserInputRef,  \* useRef('')
  threadId,          \* useParams().threadId
  mounted,           \* the page component is mounted
  loads,             \* history fetches in flight (thread ids)
  xhrs,              \* the XHRs createXHRStream has opened, in order
  message,           \* ConversationInput: useState('')
  isSending,         \* ConversationInput: useState(false)
  timer,             \* ConversationInput: the pending setTimeout closure
  op,                \* the handler that ran last, with its arguments
  script,            \* scenario runs: the events still to play
  now,               \* Date.now(), in milliseconds since the page was mounted
  wire,              \* one XHR of createXHRStream, as the browser runs it
  rendered           \* ConversationMessages: the list it rendered last

vars ==
  <<page, cleanupRef, lastUserInputRef, threadId, mounted, loads, xhrs, message,
    isSending, timer, op, script, now, wire, rendered>>

\* ----------------------------------------------------------- page state
\* The useState cells as first rendered for route parameter tid.
InitPage(tid) ==
  [messages |-> <<>>,
   currentThreadId |-> tid,
   isStreaming |-> FALSE,
   isWaitingForSupplier |-> FALSE,
   streamingMessage |-> Empty,
   assistantThought |-> Empty,
   error |-> Null,
   connectionStatus |-> "connected",
   retryAttempt |-> 0,
   isLoadingHistory |-> FALSE]

\* One entry of the transcript, created now: id: Date.now().
Msg(from, content, type) ==
  [id |-> now, from |-> from, content |-> content, type |-> type,
   status |-> "complete"]

\* The state values a handler created by the current render closes over.
Render(p) ==
  [isStreaming |-> p.isStreaming,
   isWaitingForSupplier |-> p.isWaitingForSupplier,
   currentThreadId |-> p.currentThreadId,
   streamingMessage |-> p.streamingMessage,
   assistantThought |-> p.assistantThought]

NoRender == Render(InitPage(Null))

\* A state update of an unmounted component is dropped.
Set(p) == IF mounted THEN p ELSE page

Bounded(p) ==
  /\ Len(p.messages) <= MaxMsgs
  /\ Len(p.streamingMessage) <= MaxText
  /\ Len(p.assistantThought) <= MaxText

\* ------------------------------------------------- Conversation.jsx reducers
addUserMessage(p, content) ==
  [p EXCEPT !.messages = Append(@, Msg("user", content, "user"))]

\* appendAIMessage reads streamingMessage and assistantThought of its render r.
appendAIMessage(p, r) ==
  LET p1 == IF r.streamingMessage # Empty
            THEN [p EXCEPT
                    !.messages = Append(@, Msg("assistant", r.streamingMessage, "assistant")),
                    !.streamingMessage = Empty]
            ELSE p
  IN IF r.assistantThought # Empty
     THEN [p1 EXCEPT
             !.messages =
               Append(@, [Msg("assistant", r.assistantThought, "assistant_thought")
                            EXCEPT !.id = now + 1]),
             !.assistantThought = Empty]
     ELSE p1

\* the content case comparing the content with the user input as it came
contentEventUntrimmed(p, lastUserInput, ev) ==
  IF ev.content # Empty /\ ev.content # lastUserInput
  THEN IF ev.type = "assistant_thought"
       THEN [p EXCEPT !.assistantThought =
                        IF @ # Empty THEN @ \o <<NL>> \o ev.content ELSE ev.content]
       ELSE [p EXCEPT !.streamingMessage =
                        IF @ # Empty THEN @ \o ev.content ELSE ev.content]
  ELSE p

\* case 'message' / 'ai_chunk' / 'node_progress' (data.type is the frame's type)
contentEvent(p, lastUserInput, ev) ==
  IF ev.content # Empty /\ Trim(ev.content) # lastUserInput
  THEN IF ev.type = "assistant_thought"
       THEN [p EXCEPT !.assistantThought =
                        IF @ # Empty THEN @ \o <<NL>> \o ev.content ELSE ev.content]
       ELSE [p EXCEPT !.streamingMessage =
                        IF @ # Empty THEN @ \o ev.content ELSE ev.content]
  ELSE p

\* case 'connected': currentThreadId is the value of render r.
connectedEvent(p, r, ev) ==
  LET p1 == [p EXCEPT !.connectionStatus = "connected", !.retryAttempt = 0]
  IN IF ev.thread_id # Null /\ r.currentThreadId = Null
     THEN [p1 EXCEPT !.currentThreadId = ev.thread_id]
     ELSE p1

\* case 'ai_complete' / 'workflow_complete'
completeEvent(p, r) ==
  [appendAIMessage(p, r) EXCEPT !.isStreaming = FALSE, !.isWaitingForSupplier = FALSE]

\* case 'supplier_response'
supplierResponseEvent(p, ev) ==
  LET p1 == [p EXCEPT !.isWaitingForSupplier = FALSE]
  IN IF ev.content # Empty
     THEN [p1 EXCEPT !.messages = Append(@, Msg("supplier", ev.content, "supplier"))]
     ELSE p1

\* case 'error'
errorEvent(p, ev) ==
  [p EXCEPT !.error = IF ev.error # Null THEN ev.error ELSE "An error occurred",
            !.isStreaming = FALSE,
            !.connectionStatus = "error"]

\* handleStreamEvent of render r, with the live lastUserInputRef.current.
handleStreamEvent(p, r, lastUserInput, ev) ==
  CASE ev.type = "reconnecting" ->
         [p EXCEPT !.connectionStatus = "reconnecting", !.retryAttempt = ev.attempt]
    [] ev.type = "connected" -> connectedEvent(p, r, ev)
    [] ev.type \in {"message", "ai_chunk", "node_progress"} ->
         contentEvent(p, lastUserInput, ev)
    [] ev.type \in {"ai_complete", "workflow_complete"} -> completeEvent(p, r)
    [] ev.type \in {"supplier_wait", "paused"} -> [p EXCEPT !.isWaitingForSupplier = TRUE]
    [] ev.type = "supplier_response" -> supplierResponseEvent(p, ev)
    [] ev.type = "error" -> errorEvent(p, ev)
    [] OTHER -> p

handleStreamComplete(p, r) ==
  [appendAIMessage(p, r) EXCEPT !.isStreaming = FALSE, !.connectionStatus = "connected"]

\* err.message || 'Connection error'
handleStreamError(p, errMessage) ==
  [p EXCEPT !.error = IF errMessage # Null THEN errMessage ELSE "Connection error",
            !.isStreaming = FALSE,
            !.connectionStatus = "error"]

\* ----------------------------------------------------- endpoints.js transport
\* xhrs holds the XHRs that are open, in the order createXHRStream opened them.
\* After its terminal event (load, error, abort) no callback of an XHR runs again
\* and the XHR leaves xhrs.  cleanupRef is the index in xhrs of the XHR that
\* cleanupRef.current aborts; it is 0 when cleanupRef.current is null or aborts an
\* XHR that is finished (xhr.abort() does nothing then; onabort only logs).

\* createXHRStream: a new XHR whose onEvent/onComplete/onError callbacks are the
\* handlers of render r (they read its currentThreadId, streamingMessage and
\* assistantThought); capturedThreadId starts null.  The request body is sent
\* and not kept.
createXHRStream(r) ==
  [closure |-> [currentThreadId |-> r.currentThreadId,
                streamingMessage |-> r.streamingMessage,
                assistantThought |-> r.assistantThought],
   capturedThreadId |-> Null]

\* the body resumeConversationStream(threadId, supplierResponse, ...) sends
resumeConversationStream(supplierResponse) == [supplier_response |-> supplierResponse]

Remove(xs, i) == SubSeq(xs, 1, i - 1) \o SubSeq(xs, i + 1, Len(xs))

\* cleanupRef after XHR i has left xhrs
Shift(c, i) == IF c = i THEN 0 ELSE IF c > i THEN c - 1 ELSE c

\* the cleanup function createXHRStream returned: xhr.abort()
abort(xs, c) == IF c # 0 THEN Remove(xs, c) ELSE xs

\* xhr.onprogress, for one decoded data line: capture thread_id once, call onEvent.
capture(x, ev) ==
  IF ev.thread_id # Null /\ x.capturedThreadId = Null
  THEN [x EXCEPT !.capturedThreadId = ev.thread_id]
  ELSE x

OpenXhrs == 1..Len(xhrs)

\* XHR i is open and is not the one opened last, which is open too
Superseded(i) == cleanupRef # 0 /\ i # cleanupRef

\* --------------------------------------------- Conversation.jsx controllers
\* Each is the handler of render r; refs are live.
handleStartConversation(r, userInput) ==
  /\ lastUserInputRef' = userInput
  /\ page' = Set([addUserMessage(page, userInput) EXCEPT
                    !.isStreaming = TRUE, !.error = Null,
                    !.connectionStatus = "connected", !.streamingMessage = Empty])
  /\ xhrs' = Append(xhrs, createXHRStream(r))
  /\ cleanupRef' = Len(xhrs) + 1

handleContinueConversation(r, userInput) ==
  /\ lastUserInputRef' = userInput
  /\ page' = Set([addUserMessage(page, userInput) EXCEPT
                    !.isStreaming = TRUE, !.error = Null,
                    !.isWaitingForSupplier = FALSE,
                    !.connectionStatus = "connected", !.streamingMessage = Empty])
  /\ xhrs' = Append(xhrs, createXHRStream(r))
  /\ cleanupRef' = Len(xhrs) + 1

\* const requestId = 'temp_request_id'
requestId == <<"temp_request_id">>

handleResumeConversation(r) ==
  /\ page' = Set([page EXCEPT
                    !.isStreaming = TRUE, !.error = Null,
                    !.isWaitingForSupplier = FALSE,
                    !.connectionStatus = "connected", !.streamingMessage = Empty])
  /\ xhrs' = Append(xhrs, createXHRStream(r))
  /\ cleanupRef' = Len(xhrs) + 1
  /\ UNCHANGED lastUserInputRef

\* handleSubmit that forgets the isStreaming test
handleSubmitWhileStreaming(r, userInput) ==
  IF Trim(userInput) = Empty
  THEN UNCHANGED <<page, xhrs, cleanupRef, lastUserInputRef>>
  ELSE IF r.currentThreadId = Null
       THEN handleStartConversation(r, userInput)
       ELSE handleContinueConversation(r, userInput)

handleSubmit(r, userInput) ==
  IF Trim(userInput) = Empty \/ r.isStreaming
  THEN UNCHANGED <<page, xhrs, cleanupRef, lastUserInputRef>>
  ELSE IF r.currentThreadId = Null
       THEN handleStartConversation(r, userInput)
       ELSE handleContinueConversation(r, userInput)

\* the state handleNewConversation sets
newConversation(p) ==
  [p EXCEPT !.messages = <<>>, !.currentThreadId = Null, !.isStreaming = FALSE,
            !.isWaitingForSupplier = FALSE, !.streamingMessage = Empty,
            !.assistantThought = Empty, !.error = Null,
            !.connectionStatus = "connected"]

\* ------------------------------------------------------- ConversationInput.jsx
canSend == Trim(message) # Empty /\ ~isSending
canResume == page.isWaitingForSupplier /\ ~isSending
\* the text input is enabled
inputEnabled == ~(isSending \/ page.isWaitingForSupplier \/ page.isStreaming)

NoTimer == [armed |-> FALSE, canResume |-> FALSE, message |-> Empty, render |-> NoRender]

\* ------------------------------------------------------------------- events
\* op: the handler that ran last; type is the frame type of a stream event, text the
\* text it was given (user text, frame content) or has sent (the supplier_response
\* of a resume request), pre a fact of the state it ran in.
Op(name, type, text, pre) == [name |-> name, type |-> type, text |-> text, pre |-> pre]

\* input onChange (Escape sets '')
Type(t) ==
  /\ mounted /\ inputEnabled
  /\ message' = t
  /\ op' = Op("onChange", "-", t, FALSE)
  /\ UNCHANGED <<page, cleanupRef, lastUserInputRef, threadId, mounted, loads, xhrs,
                 isSending, timer>>

\* handleSend: a click on the send button (enabled when canSend or canResume) or
\* Enter in the text input (when it is enabled).
HandleSend ==
  /\ mounted
  /\ canSend \/ canResume \/ inputEnabled
  /\ op' = Op("handleSend", "-", message, canResume)
  /\ IF ~canSend /\ ~canResume
     THEN UNCHANGED <<isSending, timer>>
     ELSE /\ isSending' = TRUE
          /\ timer' = [armed |-> TRUE, canResume |-> canResume, message |-> message,
                       render |-> Render(page)]
  /\ UNCHANGED <<page, cleanupRef, lastUserInputRef, threadId, mounted, loads, xhrs,
                 message>>

\* the setTimeout callback of handleSend, 250 ms later: onResume and onSubmit are
\* the handlers of the page render the input had when the gesture was made.
TimerFire ==
  /\ timer.armed
  /\ IF timer.canResume
     THEN /\ handleResumeConversation(timer.render)
          /\ op' = Op("handleResumeConversation", "-",
                      resumeConversationStream(requestId).supplier_response,
                      page.isWaitingForSupplier)
          /\ UNCHANGED message
     ELSE IF Trim(timer.message) # Empty
          THEN /\ handleSubmit(timer.render, Trim(timer.message))
               /\ op' = Op("handleSubmit", "-", Trim(timer.message), page.isStreaming)
               /\ message' = Empty
          ELSE /\ op' = Op("timer", "-", Empty, FALSE)
               /\ UNCHANGED <<page, xhrs, cleanupRef, lastUserInputRef, message>>
  /\ Bounded(page') /\ Len(xhrs') <= MaxOpen
  /\ isSending' = FALSE
  /\ timer' = NoTimer
  /\ UNCHANGED <<threadId, mounted, loads>>

\* xhr.onprogress of XHR i delivering one decoded frame
Progress(i, ev) ==
  /\ i \in OpenXhrs
  /\ page' = Set(handleStreamEvent(page, xhrs[i].closure, lastUserInputRef, ev))
  /\ Bounded(page')
  /\ xhrs' = [xhrs EXCEPT ![i] = capture(@, ev)]
  /\ op' = Op("handleStreamEvent", ev.type, ev.content, Superseded(i))
  /\ UNCHANGED <<cleanupRef, lastUserInputRef, threadId, mounted, loads, message,
                 isSending, timer>>

\* xhr.onload of XHR i: onComplete
Load(i) ==
  /\ i \in OpenXhrs
  /\ page' = Set(handleStreamComplete(page, xhrs[i].closure))
  /\ Bounded(page')
  /\ xhrs' = Remove(xhrs, i)
  /\ cleanupRef' = Shift(cleanupRef, i)
  /\ op' = Op("handleStreamComplete", "-", Empty, Superseded(i))
  /\ UNCHANGED <<lastUserInputRef, threadId, mounted, loads, message, isSending, timer>>

\* xhr.onerror of XHR i: onError({ message: 'Network error' })
Error(i) ==
  /\ i \in OpenXhrs
  /\ page' = Set(handleStreamError(page, "Network error"))
  /\ xhrs' = Remove(xhrs, i)
  /\ cleanupRef' = Shift(cleanupRef, i)
  /\ op' = Op("handleStreamError", "-", Empty, Superseded(i))
  /\ UNCHANGED <<lastUserInputRef, threadId, mounted, loads, message, isSending, timer>>

\* the New Conversation button (rendered when currentThreadId is set):
\* handleNewConversation; its navigate('/conversation') clears the route parameter,
\* so that the effect cleanup runs too (a second abort, of a finished XHR).
HandleNewConversation ==
  /\ mounted /\ page.currentThreadId # Null
  /\ xhrs' = abort(xhrs, cleanupRef)
  /\ cleanupRef' = 0
  /\ page' = newConversation(page)
  /\ threadId' = Null
  /\ op' = Op("handleNewConversation", "-", Empty, cleanupRef # 0)
  /\ UNCHANGED <<lastUserInputRef, mounted, loads, message, isSending, timer>>

\* ---------------------------------------------- route and history (useEffect)
\* A message of GET /conversations/:id/messages; id 0: the message has none.  The
\* ids the server gives are negative here: numbers the clock never shows.
ServerMsg(id, role, content, type) ==
  [id |-> id, role |-> role, content |-> content, type |-> type]

\* the responses the history fetch can resolve with (has: response.messages is set)
HistoryResponses ==
  {[has |-> FALSE, messages |-> <<>>],
   [has |-> TRUE, messages |-> <<>>],
   [has |-> TRUE,
    messages |-> <<ServerMsg(0, "user", Hello, Null),
                   ServerMsg(0, "assistant", Searching, "assistant")>>],
   [has |-> TRUE,
    messages |-> <<ServerMsg(-1, "user", Hello, Null),
                   ServerMsg(-2, "assistant", Searching, "assistant")>>]}

RECURSIVE mapHistory(_)
mapHistory(ms) ==
  IF ms = <<>> THEN <<>>
  ELSE <<[Msg(IF Head(ms).role = "user" THEN "user" ELSE "assistant",
              Head(ms).content,
              IF Head(ms).type # Null THEN Head(ms).type ELSE "assistant")
            EXCEPT !.id = IF Head(ms).id # 0 THEN Head(ms).id ELSE now]>>
       \o mapHistory(Tail(ms))

\* loadExistingConversation(tid), after the await: the fetch resolved with resp
loadResolved(p, tid, resp) ==
  [(IF resp.has THEN [p EXCEPT !.messages = mapHistory(resp.messages)] ELSE p) EXCEPT
     !.currentThreadId = tid, !.isLoadingHistory = FALSE]

\* loadExistingConversation(tid), after the await: the fetch rejected
loadRejected(p) ==
  [p EXCEPT !.error = "Failed to load conversation history", !.isLoadingHistory = FALSE]

\* The route parameter changes while the page stays mounted: the effect's cleanup
\* runs (cleanupRef.current?.()), then the effect itself.
RouteChange(t) ==
  /\ mounted /\ t # threadId
  /\ threadId' = t
  /\ xhrs' = abort(xhrs, cleanupRef)
  /\ cleanupRef' = 0
  /\ IF t # Null
     THEN /\ page' = [page EXCEPT !.isLoadingHistory = TRUE]
          /\ loads' = loads \cup {t}
     ELSE UNCHANGED <<page, loads>>
  /\ op' = Op("routeChange", "-", Empty, cleanupRef # 0)
  /\ UNCHANGED <<lastUserInputRef, mounted, message, isSending, timer>>

LoadResolved(t, resp) ==
  /\ t \in loads
  /\ loads' = loads \ {t}
  /\ page' = Set(loadResolved(page, t, resp))
  /\ op' = Op("loadResolved", "-", Empty, FALSE)
  /\ UNCHANGED <<cleanupRef, lastUserInputRef, threadId, mounted, xhrs, message,
                 isSending, timer>>

LoadRejected(t) ==
  /\ t \in loads
  /\ loads' = loads \ {t}
  /\ page' = Set(loadRejected(page))
  /\ op' = Op("loadRejected", "-", Empty, FALSE)
  /\ UNCHANGED <<cleanupRef, lastUserInputRef, threadId, mounted, xhrs, message,
                 isSending, timer>>

\* The page unmounts: the effect's cleanup runs and the component state is gone
\* (a pending timer of the input still fires).
Unmount ==
  /\ mounted
  /\ mounted' = FALSE
  /\ xhrs' = abort(xhrs, cleanupRef)
  /\ cleanupRef' = 0
  /\ page' = InitPage(Null)
  /\ message' = Empty
  /\ isSending' = FALSE
  /\ op' = Op("unmount", "-", Empty, cleanupRef # 0)
  /\ UNCHANGED <<lastUserInputRef, threadId, loads, timer>>

\* the closure state of createXHRStream and the state of its XMLHttpRequest,
\* before the call: no XHR yet
NoWire ==
  [readyState |-> "NONE", status |-> 0, responseText |-> Empty, lastIndex |-> 0,
   capturedThreadId |-> Null, eventCount |-> 0, calls |-> <<>>, outcome |-> "none"]

\* ----------------------------------------------------------- specifications
\* The page as mounted for route parameter tid: useState(threadId || null), and
\* the effect has started the history fetch when tid is set.
InitFor(tid) ==
  /\ page = [InitPage(tid) EXCEPT !.isLoadingHistory = (tid # Null)]
  /\ cleanupRef = 0
  /\ lastUserInputRef = Empty
  /\ threadId = tid
  /\ mounted = TRUE
  /\ loads = IF tid # Null THEN {tid} ELSE {}
  /\ xhrs = <<>>
  /\ message = Empty
  /\ isSending = FALSE
  /\ timer = NoTimer
  /\ op = Op("mount", "-", Empty, FALSE)
  /\ now = 0
  /\ wire = NoWire
  /\ rendered = <<>>

\* a step of the free environment: no script is played, and the handler runs
\* within one millisecond
Free(A) == A /\ UNCHANGED <<script, now, wire, rendered>>

\* The session of a mounted page: the user types texts of T and sends; the backend
\* sends frames of F on any open stream, and any open stream can end or fail.
SessionNext(T, F) ==
  \/ \E t \in T : Free(Type(t))
  \/ Free(HandleSend)
  \/ Free(TimerFire)
  \/ \E i \in 1..MaxOpen, ev \in F : Free(Progress(i, ev))
  \/ \E i \in 1..MaxOpen : Free(Load(i))
  \/ \E i \in 1..MaxOpen : Free(Error(i))

Init == InitFor(Null) /\ script = <<>>

\* Spec: who may send when.  The frames that move the session between streaming,
\* awaiting-supplier and idle, and the ones that set the thread id.
FramesControl ==
  {Frame("connected", "t1", Empty, Null, 0),
   Frame("ai_complete", Null, Empty, Null, 0),
   Frame("paused", Null, Empty, Null, 0),
   Frame("supplier_response", Null, Empty, Null, 0),
   Frame("error", Null, Empty, "boom", 0)}

Next == SessionNext(UserTexts, FramesControl) \/ Free(HandleNewConversation)

Spec == Init /\ [][Next]_vars

\* C1: at most one stream transport is open at any time; an operation invoked while
\* an earlier transport has not completed, failed or been aborted opens no second one.
C1_OneTransportOpen == Len(xhrs) <= 1

\* C3: submit is a no-op when the text is blank or when isStreaming is true: the
\* page state (transcript, thread id, accumulators, error, connection) is unchanged
\* and no transport is opened.  A blank text never gets past handleSend.
C3_SubmitNoOp ==
  [][/\ (op'.name = "handleSubmit" /\ (Trim(op'.text) = Empty \/ page.isStreaming))
        => UNCHANGED <<page, xhrs, cleanupRef, lastUserInputRef>>
     /\ (op'.name = "handleSend" /\ Trim(message) = Empty /\ ~op'.pre)
        => UNCHANGED <<page, xhrs, cleanupRef, lastUserInputRef, timer, isSending>>]_vars

\* handleSubmit has run with a non-blank text while isStreaming was true
C3_Witness == op.name = "handleSubmit" /\ op.pre /\ Trim(op.text) # Empty

\* C4: a resume invoked while the page is not awaiting the supplier is rejected: it
\* opens no transport and leaves the page state unchanged.
C4_ResumeOnlyWhenAwaiting ==
  [][(op'.name = "handleResumeConversation" /\ ~page.isWaitingForSupplier)
       => UNCHANGED <<page, xhrs, cleanupRef>>]_vars

\* C16: the supplier_response a resume request is sent with is the text the user
\* had given in the input when resuming, not a value fixed in the code.
C16_ResumeCarriesUserData ==
  [][op'.name = "handleResumeConversation"
       => op'.text = Trim(timer.message)]_vars

\* C10: New Conversation leaves no transport open and yields a fresh idle page: no
\* thread id, empty transcript, empty accumulators, not streaming, not awaiting
\* the supplier, no error, connection "connected".
C10_ResetFresh ==
  [][op'.name = "handleNewConversation"
       => /\ xhrs' = <<>>
          /\ page'.currentThreadId = Null
          /\ page'.messages = <<>>
          /\ page'.streamingMessage = Empty /\ page'.assistantThought = Empty
          /\ ~page'.isStreaming /\ ~page'.isWaitingForSupplier
          /\ page'.error = Null /\ page'.connectionStatus = "connected"]_vars

\* C12: an error frame and a transport failure leave connection = error, the
\* error text set (payload.error of the frame; the failure's message), the page
\* neither streaming nor awaiting the supplier, and the transcript unchanged.
C12_ErrorToIdle ==
  [][(\/ op'.name = "handleStreamError"
      \/ op'.name = "handleStreamEvent" /\ op'.type = "error")
       => /\ page'.connectionStatus = "error"
          /\ page'.error = (IF op'.name = "handleStreamError" THEN "Network error"
                            ELSE "boom")
          /\ ~page'.isStreaming /\ ~page'.isWaitingForSupplier
          /\ page'.messages = page.messages]_vars

\* C28: when the timer of the input fires, it calls onResume only if the page is
\* awaiting the supplier at that moment, and onSubmit only if the page is then
\* neither awaiting the supplier nor streaming; one gesture makes one call, and
\* no gesture is accepted while the timer is pending.
C28_DispatchByLiveState ==
  [][/\ op'.name = "handleResumeConversation" => page.isWaitingForSupplier
     /\ op'.name = "handleSubmit"
          => (~page.isWaitingForSupplier /\ ~page.isStreaming)
     /\ op'.name \in {"handleResumeConversation", "handleSubmit", "timer"}
          => (timer.armed /\ ~timer'.armed)
     /\ (op'.name = "handleSend" /\ timer.armed) => timer' = timer]_vars

\* C30: a frame, a completion or a failure of a stream that is not the one opened
\* last, while that one is open, changes nothing of the page: transcript,
\* accumulators, flags, connection, error and thread id stay as they were.
C30_SupersededStreamsSilent ==
  [][(/\ op'.name \in {"handleStreamEvent", "handleStreamComplete", "handleStreamError"}
      /\ op'.pre)
       => page' = page]_vars

\* the phase the flags of the page stand for
Phase(p) ==
  IF p.isStreaming THEN "streaming"
  ELSE IF p.isWaitingForSupplier THEN "awaiting-supplier"
  ELSE IF p.connectionStatus = "error" THEN "error"
  ELSE "idle"

\* C21: the page is never streaming and awaiting the supplier at once, and between
\* resets its phase changes along these edges only: idle -> streaming,
\* streaming -> awaiting-supplier, streaming -> idle, streaming -> error,
\* error -> idle, error -> streaming, awaiting-supplier -> streaming.
C21_PhaseEdges ==
  [][op'.name # "handleNewConversation"
       => /\ ~(page'.isStreaming /\ page'.isWaitingForSupplier)
          /\ \/ Phase(page') = Phase(page)
             \/ <<Phase(page), Phase(page')>> \in
                  {<<"idle", "streaming">>, <<"streaming", "awaiting-supplier">>,
                   <<"streaming", "idle">>, <<"streaming", "error">>,
                   <<"error", "idle">>, <<"error", "streaming">>,
                   <<"awaiting-supplier", "streaming">>}]_vars

\* SpecThreads: the thread ids the frames carry.
FramesThreads ==
  {Frame("connected", t, Empty, Null, 0) : t \in ThreadIds \cup {Null}}
  \cup {Frame("workflow_complete", t, Empty, Null, 0) : t \in ThreadIds}

NextThreads ==
  SessionNext({<<SP, "Hello">>}, FramesThreads) \/ Free(HandleNewConversation)

SpecThreads == Init /\ [][NextThreads]_vars

\* C2: once currentThreadId is set, no event changes it; only New Conversation
\* clears it.
C2_ThreadIdOneShot ==
  [][(page.currentThreadId # Null /\ op'.name # "handleNewConversation")
       => page'.currentThreadId = page.currentThreadId]_vars

\* ---------------------------------------------------------------- SpecFlush
\* What the content frames accumulate and what a completion frame flushes.
FramesFlush ==
  {Frame("connected", "t1", Empty, Null, 0),
   Frame("message", Null, Searching, Null, 0),
   Frame("ai_chunk", Null, <<"Hello", SP>>, Null, 0),
   Frame("assistant_thought", Null, Searching, Null, 0),
   Frame("ai_complete", Null, Empty, Null, 0)}

NextFlush == SessionNext({<<SP, "Hello">>}, FramesFlush)

SpecFlush == Init /\ [][NextFlush]_vars

\* the answers in a transcript (type 'assistant'; not the thoughts)
AssistantMessages(ms) == SelectSeq(ms, LAMBDA m : m.type = "assistant")

\* C5: an ai_complete or workflow_complete frame handled with a non-empty
\* streamingMessage appends exactly one assistant message with that text and
\* empties the accumulator; handled with an empty one it appends no answer.
C5_FlushOnce ==
  [][(op'.name = "handleStreamEvent" /\ op'.type \in {"ai_complete", "workflow_complete"})
       => IF page.streamingMessage # Empty
          THEN /\ AssistantMessages(page'.messages) =
                    Append(AssistantMessages(page.messages),
                           Msg("assistant", page.streamingMessage, "assistant"))
               /\ page'.streamingMessage = Empty
          ELSE AssistantMessages(page'.messages) = AssistantMessages(page.messages)]_vars

\* C18: streamingMessage is non-empty only while isStreaming is true.
C18_AccumulatorOnlyWhileStreaming == ~page.isStreaming => page.streamingMessage = Empty

\* C19: when a stream terminates (onComplete or onError) the text accumulated in
\* streamingMessage is appended to the transcript as one message and cleared; with
\* nothing accumulated (already flushed by a completion frame) nothing is appended.
C19_FlushAtTermination ==
  [][op'.name \in {"handleStreamComplete", "handleStreamError"}
       => IF page.streamingMessage # Empty
          THEN /\ page'.messages =
                    Append(page.messages,
                           Msg("assistant", page.streamingMessage, "assistant"))
               /\ page'.streamingMessage = Empty
          ELSE page'.messages = page.messages]_vars

\* C25: every frame is applied to the page state the previous frame left: the
\* handler reads the thread id and the accumulators as they are when the frame
\* arrives.
C25_ReduceInOrder ==
  [][op'.name = "handleStreamEvent"
       => \E ev \in FramesFlush :
            /\ ev.type = op'.type /\ ev.content = op'.text
            /\ page' = handleStreamEvent(page, Render(page), lastUserInputRef, ev)]_vars

\* ----------------------------------------------------------------- SpecEcho
\* Streams that answer and echo the user, and end when the XHR closes.
FramesEcho ==
  {Frame("connected", "t1", Empty, Null, 0),
   Frame("message", Null, Searching, Null, 0),
   Frame("ai_chunk", Null, <<"Hello", SP>>, Null, 0),
   Frame("node_progress", Null, <<NL, "Hello">>, Null, 0),
   Frame("assistant_thought", Null, Hello, Null, 0)}

NextEcho == SessionNext({<<SP, "Hello">>, <<"Searching", SP>>}, FramesEcho)

SpecEcho == Init /\ [][NextEcho]_vars

\* the text of the most recent user message of a transcript
RECURSIVE LastUserInput(_)
LastUserInput(ms) ==
  IF ms = <<>> THEN Empty
  ELSE IF ms[Len(ms)].from = "user" THEN ms[Len(ms)].content
       ELSE LastUserInput(SubSeq(ms, 1, Len(ms) - 1))

\* C8: a message, ai_chunk or node_progress frame whose trimmed content equals the
\* trimmed text the user submitted last is discarded: neither accumulator (nor the
\* transcript) changes.
C8_EchoSuppressed ==
  [][(/\ op'.name = "handleStreamEvent"
      /\ op'.type \in {"message", "ai_chunk", "node_progress"}
      /\ Trim(op'.text) = Trim(LastUserInput(page.messages)))
       => /\ page'.streamingMessage = page.streamingMessage
          /\ page'.assistantThought = page.assistantThought
          /\ page'.messages = page.messages]_vars

\* a content frame with white space around the text submitted last was handled
C8_Witness ==
  /\ op.name = "handleStreamEvent"
  /\ op.type \in {"message", "ai_chunk", "node_progress"}
  /\ op.text # Trim(op.text)
  /\ Trim(op.text) = LastUserInput(page.messages)

\* ---------------------------------------------------------------- SpecRoute
\* The page under its router: mounted for a thread or for none, the route
\* parameter changes, the history fetch resolves or rejects, the page unmounts.
FramesRoute ==
  {Frame("connected", "t1", Empty, Null, 0),
   Frame("message", Null, Searching, Null, 0)}

InitRoute == \E tid \in {Null, "t1"} : InitFor(tid) /\ script = <<>>

NextRoute ==
  \/ SessionNext({<<SP, "Hello">>}, FramesRoute)
  \/ \E t \in {Null, "t1"} : Free(RouteChange(t))
  \/ \E t \in {"t1"}, resp \in HistoryResponses : Free(LoadResolved(t, resp))
  \/ \E t \in {"t1"} : Free(LoadRejected(t))
  \/ Free(Unmount)

SpecRoute == InitRoute /\ [][NextRoute]_vars

\* C9: aborting the open stream through the cleanup function while isStreaming is
\* true leaves the transcript as it was and ends the streaming phase.
C9_CancelSafe ==
  [][(op'.name = "routeChange" /\ op'.pre /\ page.isStreaming)
       => (page'.messages = page.messages /\ ~page'.isStreaming)]_vars

\* C17: once every stream the page opened has completed, failed or been aborted
\* (and no send is pending), the page is not streaming.
C17_NotStuckStreaming ==
  (mounted /\ xhrs = <<>> /\ ~timer.armed) => ~page.isStreaming

\* C27: while the page is mounted and not reset, the transcript only grows at
\* its end: no step removes or replaces a message that is in it.
C27_TranscriptAppendOnly ==
  [][op'.name \notin {"handleNewConversation", "unmount"}
       => (Len(page.messages) <= Len(page'.messages)
           /\ SubSeq(page'.messages, 1, Len(page.messages)) = page.messages)]_vars

\* ---------------------------------------------------------------- SpecLeave
\* The user starts over or leaves while streams of a paused conversation are open.
FramesLeave ==
  {Frame("connected", "t1", Empty, Null, 0),
   Frame("paused", Null, Empty, Null, 0)}

NextLeave ==
  \/ SessionNext({<<SP, "Hello">>}, FramesLeave)
  \/ Free(HandleNewConversation)
  \/ Free(Unmount)

SpecLeave == Init /\ [][NextLeave]_vars

\* C11: when the page is reset (New Conversation) or unmounted, every XHR it has
\* opened and that is still open is aborted: none stays open.
C11_NoOrphanedStreams ==
  [][op'.name \in {"handleNewConversation", "unmount"} => xhrs' = <<>>]_vars

\* ---------------------------------------------------------------- SpecClock
\* The clock advances between handlers, or does not: two handlers can run within
\* the same millisecond.
Tick ==
  /\ now < MaxClock
  /\ now' = now + 1
  /\ UNCHANGED <<page, cleanupRef, lastUserInputRef, threadId, mounted, loads, xhrs,
                 message, isSending, timer, op, script, wire, rendered>>

FramesClock ==
  {Frame("supplier_response", Null, <<"Quote">>, Null, 0),
   Frame("ai_complete", Null, Empty, Null, 0)}

NextClock ==
  \/ SessionNext({<<SP, "Hello">>}, FramesClock)
  \/ \E t \in {"t1"}, resp \in HistoryResponses : Free(LoadResolved(t, resp))
  \/ Tick

SpecClock == InitRoute /\ [][NextClock]_vars

\* ms extends the transcript old at its end
Extends(ms, old) == Len(old) <= Len(ms) /\ SubSeq(ms, 1, Len(old)) = old

\* C20: no two messages of the transcript have the same id, and the transcript
\* only grows at its end (a loaded history replaces it).
C20_UniqueIdsInOrder ==
  [][/\ \A i, j \in 1..Len(page'.messages) :
          i # j => page'.messages[i].id # page'.messages[j].id
     /\ loads' = loads => Extends(page'.messages, page.messages)]_vars

\* C22: a supplier_response frame leaves the page neither awaiting the supplier
\* nor streaming, appends exactly one complete supplier message with the frame's
\* content at the end of the transcript, and changes neither the thread id nor
\* the accumulators.
C22_SupplierResponse ==
  [][(op'.name = "handleStreamEvent" /\ op'.type = "supplier_response")
       => /\ ~page'.isWaitingForSupplier /\ ~page'.isStreaming
          /\ page'.messages = Append(page.messages, Msg("supplier", op'.text, "supplier"))
          /\ page'.currentThreadId = page.currentThreadId
          /\ page'.streamingMessage = page.streamingMessage
          /\ page'.assistantThought = page.assistantThought]_vars

\* ------------------------------------------------ createXHRStream, on the wire
\* The response text is a sequence of symbols: NL, SP, the prefix `data: `, the
\* ping comment, and pieces of JSON text.
DATA == "data: "
PING == ": ping"

\* the JSON texts that are one whole object, and the frame each parses to
JsonText ==
  [j \in {"{connected t1}", "{message Searching}", "{ai_complete}"} |->
     CASE j = "{connected t1}" -> Frame("connected", "t1", Empty, Null, 0)
       [] j = "{message Searching}" -> Frame("message", Null, Searching, Null, 0)
       [] OTHER -> Frame("ai_complete", Null, Empty, Null, 0)]

\* the JSON text of the value null
JsonNull == "null"

\* a JSON text cut in two: the halves, and the whole they make
JsonHalves == <<"{message Sea", "rching}">>
JsonWhole == "{message Searching}"

\* String.prototype.split('\n')
RECURSIVE Split(_)
Split(t) ==
  IF \A i \in 1..Len(t) : t[i] # NL THEN <<t>>
  ELSE LET k == CHOOSE i \in 1..Len(t) : t[i] = NL /\ \A j \in 1..(i - 1) : t[j] # NL
       IN <<SubSeq(t, 1, k - 1)>> \o Split(SubSeq(t, k + 1, Len(t)))

\* JSON.parse(dataStr): ok with the object or with null, or a SyntaxError
JSONparse(dataStr) ==
  LET d == Trim(dataStr)
      none == Frame("none", Null, Empty, Null, 0)
  IN IF Len(d) = 1 /\ d[1] \in DOMAIN JsonText
     THEN [ok |-> TRUE, isNull |-> FALSE, value |-> JsonText[d[1]]]
     ELSE IF d = JsonHalves
          THEN [ok |-> TRUE, isNull |-> FALSE, value |-> JsonText[JsonWhole]]
          ELSE IF d = <<JsonNull>>
               THEN [ok |-> TRUE, isNull |-> TRUE, value |-> none]
               ELSE [ok |-> FALSE, isNull |-> FALSE, value |-> none]

\* the callbacks createXHRStream is given, as the calls made to them
\* onEvent({ type: parsedData.type, data: parsedData }); threw: the handler threw
OnEvent(ev, threw) == [cb |-> "onEvent", type |-> ev.type, data |-> ev, threw |-> threw]
OnComplete(tid) == [cb |-> "onComplete", type |-> "completed", thread_id |-> tid]
OnError(m) == [cb |-> "onError", type |-> m, thread_id |-> Null]

\* the loop body reading the line as it came, not trimmed
progressLineUntrimmed(w, line, throwsOn) ==
  IF line = Empty THEN w
  ELSE IF Head(line) = PING THEN w
  ELSE IF Head(line) = DATA
  THEN LET parsed == JSONparse(Tail(line))
       IN IF parsed.ok /\ ~parsed.isNull
          THEN [w EXCEPT
                  !.capturedThreadId =
                     IF parsed.value.thread_id # Null /\ @ = Null
                     THEN parsed.value.thread_id ELSE @,
                  !.calls = Append(@, OnEvent(parsed.value, parsed.value.type = throwsOn))]
          ELSE w
  ELSE w

\* the body of the for loop of xhr.onprogress, for one line; onEvent throws on
\* events of type throwsOn.  The catch takes a SyntaxError of JSON.parse, the
\* TypeError of null.type and whatever onEvent throws.
progressLine(w, line, throwsOn) ==
  LET trimmedLine == Trim(line)
  IN IF trimmedLine = Empty THEN w
     ELSE IF Head(trimmedLine) = PING THEN w
     ELSE IF Head(trimmedLine) = DATA
     THEN LET parsed == JSONparse(Tail(trimmedLine))
          IN IF parsed.ok /\ ~parsed.isNull
             THEN [w EXCEPT
                     !.capturedThreadId =
                        IF parsed.value.thread_id # Null /\ @ = Null
                        THEN parsed.value.thread_id ELSE @,
                     !.calls = Append(@, OnEvent(parsed.value, parsed.value.type = throwsOn))]
             ELSE w
     ELSE w

\* a loop that an exception of onEvent ends
RECURSIVE progressLinesBreaking(_, _, _)
progressLinesBreaking(w, lines, throwsOn) ==
  IF lines = <<>> THEN w
  ELSE LET w1 == progressLine(w, Head(lines), throwsOn)
       IN IF w1.calls # w.calls /\ w1.calls[Len(w1.calls)].threw THEN w1
          ELSE progressLinesBreaking(w1, Tail(lines), throwsOn)

RECURSIVE progressLines(_, _, _)
progressLines(w, lines, throwsOn) ==
  IF lines = <<>> THEN w
  ELSE progressLines(progressLine(w, Head(lines), throwsOn), Tail(lines), throwsOn)

\* the data lines of a text that JSON.parse rejects
BadLines(t) ==
  SelectSeq(Split(t), LAMBDA l : /\ Trim(l) # Empty /\ Head(Trim(l)) = DATA
                                 /\ ~JSONparse(Tail(Trim(l))).ok)

\* an onprogress that reports a line it cannot parse through onError
onprogressFailing(w, throwsOn) ==
  LET newData == SubSeq(w.responseText, w.lastIndex + 1, Len(w.responseText))
      w1 == [w EXCEPT !.lastIndex = Len(w.responseText)]
      w2 == progressLines([w1 EXCEPT !.eventCount = @ + 1], Split(newData), throwsOn)
  IN IF newData # Empty
     THEN IF BadLines(newData) # <<>>
          THEN [w2 EXCEPT !.calls = Append(@, OnError("Parse error"))]
          ELSE w2
     ELSE w1

\* xhr.onprogress
onprogress(w, throwsOn) ==
  LET newData == SubSeq(w.responseText, w.lastIndex + 1, Len(w.responseText))
      w1 == [w EXCEPT !.lastIndex = Len(w.responseText)]
  IN IF newData # Empty
     THEN progressLines([w1 EXCEPT !.eventCount = @ + 1], Split(newData), throwsOn)
     ELSE w1

\* an onload that also reports a failure
onloadAndFail(w) ==
  [w EXCEPT !.calls = Append(Append(@, OnComplete(w.capturedThreadId)),
                             OnError("Network error"))]

\* xhr.onload: whatever xhr.status is
onload(w) == [w EXCEPT !.calls = Append(@, OnComplete(w.capturedThreadId))]

\* xhr.onerror
onerror(w) == [w EXCEPT !.calls = Append(@, OnError("Network error"))]

\* an onabort that reports a completion
onabortCompletes(w) == [w EXCEPT !.calls = Append(@, OnComplete(w.capturedThreadId))]

\* xhr.onabort: logs
onabort(w) == w

\* a step of the XHR: the page is left alone
Wire(A) ==
  A /\ UNCHANGED <<page, cleanupRef, lastUserInputRef, threadId, mounted, loads,
                   xhrs, message, isSending, timer, script, now, rendered>>

\* new XMLHttpRequest(), open, the three closure cells, send
XhrSend ==
  /\ wire.readyState = "NONE"
  /\ wire' = [wire EXCEPT !.readyState = "OPENED"]
  /\ op' = Op("send", "-", Empty, FALSE)

\* the HTTP statuses a response can carry
Statuses == {200, 500}

\* the response's status line and headers arrive
XhrHeaders(st) ==
  /\ wire.readyState = "OPENED" /\ wire.outcome = "none"
  /\ wire' = [wire EXCEPT !.readyState = "HEADERS_RECEIVED", !.status = st]
  /\ op' = Op("headers", "-", Empty, FALSE)

\* bytes of the body as the network delivers them: whole frames, a frame cut in
\* two, a ping, a frame with spaces around it, a line that is not JSON
Chunks ==
  {<<DATA, "{connected t1}", NL, NL>>,
   <<DATA, "{message Sea">>,
   <<"rching}", NL>>,
   <<PING, NL>>,
   <<SP, DATA, "{ai_complete}", SP, NL>>,
   <<DATA, "{", NL>>,
   <<DATA, JsonNull, NL>>}

\* the event type the page's onEvent throws on ("-": on none)
Throws == {"-", "message", "connected"}

\* the bytes of the response not yet reported by a progress event
Delta(w) == SubSeq(w.responseText, w.lastIndex + 1, Len(w.responseText))

\* body bytes arrive; xhr.responseText grows.  The browser reports them by a
\* progress event, at once or later.
XhrReceive(chunk) ==
  /\ wire.readyState \in {"HEADERS_RECEIVED", "LOADING"} /\ wire.outcome = "none"
  /\ Len(wire.responseText) + Len(chunk) <= MaxWire
  /\ wire' = [wire EXCEPT !.readyState = "LOADING", !.responseText = @ \o chunk]
  /\ op' = Op("receive", "-", Empty, FALSE)

\* the browser fires progress for the bytes not yet reported
XhrProgress(throwsOn) ==
  /\ wire.readyState = "LOADING" /\ wire.outcome = "none"
  /\ wire.lastIndex < Len(wire.responseText)
  /\ wire' = onprogress(wire, throwsOn)
  /\ op' = Op("onprogress", throwsOn, Delta(wire), FALSE)

\* the response ends: a last progress event, then load, whatever the status
XhrEnd(throwsOn) ==
  /\ wire.readyState \in {"HEADERS_RECEIVED", "LOADING"} /\ wire.outcome = "none"
  /\ wire' = [onload(onprogress(wire, throwsOn)) EXCEPT
               !.readyState = "DONE", !.outcome = "load"]
  /\ op' = Op("onload", throwsOn, Delta(wire), FALSE)

\* the request fails on the network, before or during the response: error
XhrFail ==
  /\ wire.readyState \in {"OPENED", "HEADERS_RECEIVED", "LOADING"}
  /\ wire.outcome = "none"
  /\ wire' = [onerror(wire) EXCEPT !.readyState = "DONE", !.outcome = "error",
                                   !.status = 0, !.responseText = Empty]
  /\ op' = Op("onerror", "-", Empty, FALSE)

\* the cleanup function createXHRStream returns: xhr.abort().  It fires abort on
\* a request in flight, and fires nothing on one that has ended.
XhrCleanup ==
  /\ wire.readyState # "NONE"
  /\ wire' = IF wire.outcome = "none"
             THEN [onabort(wire) EXCEPT !.readyState = "UNSENT", !.outcome = "abort",
                                       !.status = 0, !.responseText = Empty]
             ELSE [wire EXCEPT !.readyState = "UNSENT"]
  /\ op' = Op("cleanup", "-", Empty, wire.outcome # "none")

\* SpecTransport: one call of createXHRStream, from send to its end.
NextTransport ==
  \/ Wire(XhrSend)
  \/ \E st \in Statuses : Wire(XhrHeaders(st))
  \/ \E chunk \in Chunks : Wire(XhrReceive(chunk))
  \/ \E throwsOn \in Throws : Wire(XhrProgress(throwsOn))
  \/ \E throwsOn \in Throws : Wire(XhrEnd(throwsOn))
  \/ Wire(XhrFail)
  \/ Wire(XhrCleanup)

SpecTransport == Init /\ [][NextTransport]_vars

\* the calls of the log that end a stream
Terminals(calls) == {i \in 1..Len(calls) : calls[i].cb \in {"onComplete", "onError"}}

\* C13: the stream makes at most one terminal call (onComplete or onError), that
\* call is the last call it makes, and a stream that ended without being aborted
\* has made exactly one.
C13_CallbackProtocol ==
  /\ Cardinality(Terminals(wire.calls)) <= 1
  /\ Terminals(wire.calls) \subseteq {Len(wire.calls)}
  /\ wire.outcome \in {"load", "error"} => Cardinality(Terminals(wire.calls)) = 1

\* a stream that delivered events and then completed
C13_Witness ==
  /\ wire.outcome = "load"
  /\ Len(wire.calls) = 3
  /\ wire.calls[1].cb = "onEvent" /\ wire.calls[1].type = "connected"
  /\ wire.calls[2].cb = "onEvent" /\ wire.calls[2].type = "message"
  /\ wire.calls[3] = OnComplete("t1")

\* C14: a response that ends with a status outside 200..299 is not reported by
\* onComplete.
C14_Non2xxNotCompleted ==
  (wire.outcome = "load" /\ wire.status \notin 200..299)
    => \A i \in 1..Len(wire.calls) : wire.calls[i].cb # "onComplete"

\* C15: the cleanup call makes no callback, an aborted stream makes no callback
\* afterwards, and cleanup on a stream that has ended or was aborted leaves the
\* callbacks' log and the page as they were.
C15_AbortSilent ==
  [][/\ op'.name = "cleanup" => wire'.calls = wire.calls
     /\ wire.outcome = "abort" => wire'.calls = wire.calls /\ wire'.outcome = "abort"
     /\ (op'.name = "cleanup" /\ op'.pre)
          => wire'.outcome = wire.outcome /\ page' = page /\ xhrs' = xhrs]_vars

\* a stream aborted after it delivered an event, and cleanup called again
C15_Witness ==
  /\ wire.outcome = "abort" /\ op.name = "cleanup" /\ op.pre
  /\ Len(wire.calls) = 1 /\ wire.calls[1].cb = "onEvent"

\* the lines of a text that, trimmed, begin with `data: ` and decode as JSON
JsonLines(t) ==
  SelectSeq(Split(t), LAMBDA l : /\ Trim(l) # Empty /\ Head(Trim(l)) = DATA
                                 /\ JSONparse(Tail(Trim(l))).ok)

\* those of them that decode as a record
RecordLines(t) == SelectSeq(JsonLines(t), LAMBDA l : ~JSONparse(Tail(Trim(l))).isNull)

\* the onEvent calls a text asks for: one per record line, in the order of the lines
Expected(t, throwsOn) ==
  [i \in 1..Len(RecordLines(t)) |->
     LET record == JSONparse(Tail(Trim(RecordLines(t)[i]))).value
     IN [cb |-> "onEvent", type |-> record.type, data |-> record,
         threw |-> (record.type = throwsOn)]]

\* the calls a step has added to the log
Added == SubSeq(wire'.calls, Len(wire.calls) + 1, Len(wire'.calls))

\* the completion call of a step that ends the response
Completion ==
  IF op'.name = "onload" THEN <<OnComplete(wire'.capturedThreadId)>> ELSE <<>>

\* C23: a progress event whose text, or an earlier one's, holds a `data: ` line
\* that is not valid JSON delivers no event for that line, makes no onError call
\* and no onComplete call of its own, leaves the page as it was, and delivers
\* every record line of its text, in order.
C23_BadLineDropped ==
  [][(/\ op'.name \in {"onprogress", "onload"}
      /\ \/ BadLines(op'.text) # <<>>
         \/ BadLines(SubSeq(wire.responseText, 1, wire.lastIndex)) # <<>>)
       => /\ Extends(wire'.calls, wire.calls)
          /\ Added = Expected(op'.text, op'.type) \o Completion
          /\ op'.name = "onprogress" => wire'.outcome = "none"
          /\ page' = page]_vars

\* one progress event read a line that is not JSON and then a connected frame
C23_Witness ==
  /\ op.name = "onprogress"
  /\ op.text = <<DATA, "{", NL, DATA, "{connected t1}", NL, NL>>
  /\ wire.calls = <<OnEvent(JsonText["{connected t1}"], FALSE)>>
  /\ wire.outcome = "none"

Threw(calls) == \E i \in 1..Len(calls) : calls[i].cb = "onEvent" /\ calls[i].threw

allMessages(messages, streamingMessage, assistantThought) ==
  LET m1 == IF streamingMessage # Empty
            THEN Append(messages,
                        [id |-> "streaming", from |-> "assistant",
                         content |-> streamingMessage, type |-> "assistant",
                         status |-> "streaming"])
            ELSE messages
  IN IF assistantThought # Empty
     THEN Append(m1, [id |-> "thought", from |-> "assistant",
                      content |-> assistantThought, type |-> "assistant_thought",
                      status |-> "complete"])
     ELSE m1

\* the messages a transcript is made of; the i-th gets id i
Committed ==
  {[from |-> "user", content |-> Hello, type |-> "user"],
   [from |-> "assistant", content |-> Searching, type |-> "assistant"],
   [from |-> "supplier", content |-> <<"Quote">>, type |-> "supplier"]}

Transcripts ==
  UNION {{[i \in 1..n |-> [id |-> i, from |-> f[i].from, content |-> f[i].content,
                            type |-> f[i].type, status |-> "complete"]] :
            f \in [1..n -> Committed]} : n \in 0..MaxMsgs}

\* the texts an accumulator can hold
Accumulated == {Empty, Searching, <<"Hello", SP>>}

\* the props of the first render
InitAssemble ==
  \E ms \in Transcripts, sm \in Accumulated, at \in Accumulated :
    /\ page = [InitPage(Null) EXCEPT !.messages = ms, !.streamingMessage = sm,
                                     !.assistantThought = at]
    /\ cleanupRef = 0 /\ lastUserInputRef = Empty /\ threadId = Null
    /\ mounted = TRUE /\ loads = {} /\ xhrs = <<>> /\ message = Empty
    /\ isSending = FALSE /\ timer = NoTimer /\ op = Op("mount", "-", Empty, FALSE)
    /\ now = 0 /\ wire = NoWire /\ rendered = <<>> /\ script = <<>>

\* the parent renders with other accumulators
SetProps(sm, at) ==
  /\ page' = [page EXCEPT !.streamingMessage = sm, !.assistantThought = at]
  /\ op' = Op("props", "-", Empty, FALSE)
  /\ UNCHANGED <<cleanupRef, lastUserInputRef, threadId, mounted, loads, xhrs,
                 message, isSending, timer, script, now, wire, rendered>>

\* ConversationMessages renders
RenderMessages ==
  /\ rendered' = allMessages(page.messages, page.streamingMessage, page.assistantThought)
  /\ op' = Op("ConversationMessages", "-", Empty, rendered # <<>>)
  /\ UNCHANGED <<page, cleanupRef, lastUserInputRef, threadId, mounted, loads, xhrs,
                 message, isSending, timer, script, now, wire>>

NextAssemble ==
  \/ \E sm \in Accumulated, at \in Accumulated : SetProps(sm, at)
  \/ RenderMessages

SpecAssemble == InitAssemble /\ [][NextAssemble]_vars

\* C26: the rendered list is the transcript, in order, followed by one entry for
\* each non-empty accumulator (the answer, then the thought), each with status
\* streaming; the transcript is not changed, and rendering the same props again
\* gives the same list.
C26_AssemblyIsView ==
  [][op'.name = "ConversationMessages"
       => LET n == Len(page.messages)
              a == IF page.streamingMessage # Empty THEN 1 ELSE 0
              t == IF page.assistantThought # Empty THEN 1 ELSE 0
          IN /\ page' = page
             /\ Len(rendered') = n + a + t
             /\ SubSeq(rendered', 1, n) = page.messages
             /\ a = 1 => /\ rendered'[n + 1].content = page.streamingMessage
                         /\ rendered'[n + 1].type = "assistant"
             /\ t = 1 => /\ rendered'[n + a + 1].content = page.assistantThought
                         /\ rendered'[n + a + 1].type = "assistant_thought"
             /\ \A i \in (n + 1)..(n + a + t) : rendered'[i].status = "streaming"
             /\ (rendered # <<>> /\ op.name = "ConversationMessages")
                  => rendered' = rendered]_vars

\* ------------------------------------------------------------- SpecScenario
\* Scripted runs: script holds the events still to play and ends with a record
\* that names the scenario and what it was run with.
Play(A) == A /\ script' = Tail(script) /\ UNCHANGED <<now, wire, rendered>>

\* submit(u): the user types u and sends; handleSend's timer fires
Submit(u) == <<[kind |-> "type", text |-> u], [kind |-> "send"], [kind |-> "timer"]>>
\* a frame on the stream opened last
Deliver(ev) == [kind |-> "frame", ev |-> ev]

\* a fresh session whose stream delivers connected{t}, node_progress{c}, ai_complete
EndToEnd(u, t, c) ==
  Submit(u) \o
  <<Deliver(Frame("connected", t, Empty, Null, 0)),
    Deliver(Frame("node_progress", Null, c, Null, 0)),
    Deliver(Frame("ai_complete", Null, Empty, Null, 0)),
    [kind |-> "done", name |-> "endToEnd", threadId |-> t, answer |-> c]>>

\* submit("X"), an answer c1 and a paused frame; the first stream closes or stays
\* open; resume; the resume stream delivers a supplier_response (when s is not
\* empty), an answer c2 and workflow_complete
PauseResume(c1, closes, s, c2) ==
  Submit(<<"X">>) \o
  <<Deliver(Frame("message", Null, c1, Null, 0)),
    Deliver(Frame("paused", Null, Empty, Null, 0))>> \o
  (IF closes THEN <<[kind |-> "load"]>> ELSE <<>>) \o
  <<[kind |-> "send"], [kind |-> "timer"]>> \o
  (IF s # Empty THEN <<Deliver(Frame("supplier_response", Null, s, Null, 0))>>
   ELSE <<>>) \o
  <<Deliver(Frame("message", Null, c2, Null, 0)),
    Deliver(Frame("workflow_complete", Null, Empty, Null, 0)),
    [kind |-> "done", name |-> "pauseResume", first |-> c1, supplier |-> s,
     final |-> c2]>>

Scenarios ==
  {EndToEnd(u, t, c) : u \in {Hello, <<SP, "Hello">>}, t \in ThreadIds,
                       c \in {Searching, <<"Offer">>, <<"Searching", SP>>}}
  \cup {PauseResume(Searching, closes, s, c2) :
          closes \in BOOLEAN, s \in {Empty, <<"Quote">>}, c2 \in {Searching, <<"Offer">>}}

InitScenario == InitFor(Null) /\ script \in Scenarios

NextScenario ==
  \/ script # <<>> /\ Head(script).kind = "type" /\ Play(Type(Head(script).text))
  \/ script # <<>> /\ Head(script).kind = "send" /\ Play(HandleSend)
  \/ script # <<>> /\ Head(script).kind = "timer" /\ Play(TimerFire)
  \/ script # <<>> /\ Head(script).kind = "frame"
       /\ Play(Progress(Len(xhrs), Head(script).ev))
  \/ script # <<>> /\ Head(script).kind = "load" /\ Play(Load(1))

SpecScenario == InitScenario /\ [][NextScenario]_vars

\* the scenario called name has been played to its end
Played(name) == script # <<>> /\ Head(script).kind = "done" /\ Head(script).name = name

\* what the streams have added to a transcript (all but the user's messages)
Produced(ms) == SelectSeq(ms, LAMBDA m : m.from # "user")

\* C6: after connected{t1}, node_progress{"Searching"}, ai_complete on a fresh
\* session the thread id is t1, the stream has produced the one assistant message
\* "Searching", the accumulator is empty and the page is idle.
C6_EndToEnd ==
  Played("endToEnd") =>
    /\ page.currentThreadId = Head(script).threadId
    /\ Produced(page.messages) = <<Msg("assistant", Head(script).answer, "assistant")>>
    /\ page.streamingMessage = Empty
    /\ ~page.isStreaming /\ ~page.isWaitingForSupplier

\* C7: submit("X"), content and paused give awaiting-supplier; resume gives
\* streaming; workflow_complete gives idle, and the transcript is then user("X"),
\* the answer of the first stream, the supplier message if one came, the answer of
\* the resume stream, in this order.
C7_PauseResume ==
  /\ (script # <<>> /\ script[Len(script)].name = "pauseResume"
        /\ op.name = "handleStreamEvent" /\ op.type = "paused")
       => page.isWaitingForSupplier
  /\ (script # <<>> /\ script[Len(script)].name = "pauseResume"
        /\ op.name = "handleResumeConversation")
       => (page.isStreaming /\ ~page.isWaitingForSupplier)
  /\ Played("pauseResume") =>
       /\ ~page.isStreaming /\ ~page.isWaitingForSupplier
       /\ page.messages =
            <<Msg("user", <<"X">>, "user"),
              Msg("assistant", Head(script).first, "assistant")>>
            \o (IF Head(script).supplier # Empty
                THEN <<Msg("supplier", Head(script).supplier, "supplier")>> ELSE <<>>)
            \o <<Msg("assistant", Head(script).final, "assistant")>>

====
